---- MODULE Spec2Model ----
(***************************************************************************)
(* A model of the two sofifa scrapers.                                     *)
(*   Script_1.py  the full-profile variant: listing table rows, one detail *)
(*                page per row, 13-column records sorted by ID.            *)
(*   Script_2.py  the minimal variant: player links, name/value/wage.      *)
(* The browser, the site and the file system are the environment: every    *)
(* call into them (driver.get, WebDriverWait, execute_script, page_source) *)
(* has its outcome chosen nondeterministically.                            *)
(* Strings whose ordering matters (player ids) are sequences of code       *)
(* points; all other strings are TLA+ strings.                             *)
(***************************************************************************)
EXTENDS Integers, Sequences, FiniteSets, TLC

(***************************************************************************)
(* Bounds of the model.                                                    *)
(***************************************************************************)
MaxRows == 2          \* rows of the listing table (Script_1)
MaxHeight == 2        \* distinct document heights the page can report
MaxRetriesArg == 4    \* largest `retries` argument tried on safe_get alone
MaxLinks == 5         \* anchors gathered on the team page (Script_2)
MaxParas == 1         \* labelled <p> elements of a generated detail page
MaxInfos == 1         \* labelled <div class="info"> elements of such a page
MaxSegments == 2      \* "/"-separated segments of a team url tried on the naming
MaxDots == 1          \* dots inside one segment of such a url
MaxMeasures == 6      \* scripted height measurements for scroll_to_bottom alone

(***************************************************************************)
(* Program constants.                                                      *)
(***************************************************************************)
SafeGetDefaultRetries == 3     \* def safe_get(driver, url, retries=3)
ProfileMaxRetries == 3         \* def scrape_player_profile(..., max_retries=3)
MinColumns == 8                \* if len(cols) < 8
DetailFieldCount == 9          \* the 9-tuple of scrape_player_profile
ListingMaxRetries == 3         \* def get_player_urls_from_team(..., max_retries=3)
FetchMaxRetries == 3           \* def scrape_name_value_wage(..., max_retries=3)

(***************************************************************************)
(* Strings as code points: "-" is 45, "0".."9" are 48..57.                 *)
(***************************************************************************)
Dash == <<45>>
Id20 == <<50, 48>>
Id100 == <<49, 48, 48>>

Min(a, b) == IF a < b THEN a ELSE b

\* Python's str comparison: lexicographic by code point, a proper prefix first.
StrLess(a, b) ==
    \/ \E k \in 1..Min(Len(a), Len(b)) :
          /\ \A j \in 1..(k - 1) : a[j] = b[j]
          /\ a[k] < b[k]
    \/ /\ Len(a) < Len(b)
       /\ \A j \in 1..Len(a) : a[j] = b[j]

StrLeq(a, b) == a = b \/ StrLess(a, b)

(***************************************************************************)
(* hrefs and urls.  An href is abstracted to what the pattern              *)
(* /player/(\d+) can see of it: whether it has a /player/ segment and the  *)
(* digits that follow it (possibly none).                                  *)
(***************************************************************************)
Href(kind, num) == [kind |-> kind, num |-> num]
HrefA == Href("player", Id20)
HrefB == Href("player", Id100)
HrefC == Href("team", <<>>)

\* re.findall(r'/player/(\d+)', href)[0] if any else "-"
PlayerIdOf(href) ==
    IF href.kind = "player" /\ Len(href.num) > 0 THEN href.num ELSE Dash

\* f"https://sofifa.com{player_href}"
FullUrl(href) == [host |-> "https://sofifa.com", href |-> href]

(***************************************************************************)
(* Listing rows (Script_1).  A row is what the main loop reads of a <tr>:  *)
(* the number of <td> cells, the anchor of the name cell (absent, without  *)
(* an href attribute, or with one), and the cell texts.                    *)
(***************************************************************************)
Anchor(present, has_href, href, text) ==
    [present |-> present, has_href |-> has_href, href |-> href, text |-> text]

ListingRow(ncols, anchor, pos) ==
    [ncols |-> ncols, anchor |-> anchor, age |-> "25", overall |-> "80",
     potential |-> "85", pos |-> pos]

RowShort == ListingRow(5, Anchor(TRUE, TRUE, HrefA, "Ann"), "ST")
RowNoAnchor == ListingRow(8, Anchor(FALSE, FALSE, HrefC, ""), "-")
RowNoHref == ListingRow(8, Anchor(TRUE, FALSE, HrefC, "Nil"), "GK")
RowA == ListingRow(8, Anchor(TRUE, TRUE, HrefA, "Ann"), "ST")
RowB == ListingRow(9, Anchor(TRUE, TRUE, HrefB, "Bob"), "-")
RowC == ListingRow(8, Anchor(TRUE, TRUE, HrefC, "Cy"), "CB")

ListingRows == {RowShort, RowNoAnchor, RowNoHref, RowA, RowB, RowC}

SeqsUpTo(S, n) == UNION {[1..k -> S] : k \in 0..n}

(***************************************************************************)
(* Detail pages (Script_1).  A page is what scrape_player_profile reads of *)
(* the parsed document.                                                    *)
(*   notfound  a <title> exists and contains "Page not found"              *)
(*   ld        the first <script type="application/ld+json">:              *)
(*             kind "absent"    no such element                            *)
(*                  "empty"     script.string is None                      *)
(*                  "invalid"   text that json.loads rejects               *)
(*                  "nonobject" valid JSON that is no object               *)
(*                  "object"    a JSON object; each key Missing, NoneVal   *)
(*                              (JSON null) or a string                    *)
(*   paras     the <p> elements with a <label>, as <<label, value>>        *)
(*   infos     the <div class="info"> elements with a <label>, as          *)
(*             <<words, value>>, words = the known words the label has     *)
(*   pos       what follows the first <span class="pos">: "nospan",        *)
(*             "nomatch", or the YYYY ~ YYYY text found there              *)
(***************************************************************************)
Missing == "<missing>"
NoneVal == "<None>"

Ld(kind, h, w, n) == [kind |-> kind, height |-> h, weight |-> w, nationality |-> n]
NoLd == Ld("absent", Missing, Missing, Missing)

Page(notfound, ld, paras, infos, pos) ==
    [notfound |-> notfound, ld |-> ld, paras |-> paras, infos |-> infos, pos |-> pos]

\* data.get(key, "-")
DictGet(ld, key) == IF ld[key] = Missing THEN "-" ELSE ld[key]

\* Lines 176-184: TRUE when the block makes the attempt raise (the inner
\* handler catches json.JSONDecodeError only).
LdRaises(ld) == ld.kind \in {"empty", "nonobject"}

LdValue(ld, key) == IF ld.kind = "object" THEN DictGet(ld, key) ELSE "-"

\* Lines 186-201: every matching paragraph assigns, so the last one stays.
RECURSIVE ScanParas(_, _, _)
ScanParas(paras, label, acc) ==
    IF paras = <<>> THEN acc
    ELSE ScanParas(Tail(paras), label,
                   IF Head(paras)[1] = label THEN Head(paras)[2] ELSE acc)

\* Lines 203-209: "Value" is tested first, "Wage" only in the elif.
RECURSIVE ScanInfos(_, _, _)
ScanInfos(infos, field, acc) ==
    IF infos = <<>> THEN acc
    ELSE LET words == Head(infos)[1]
             hit == IF field = "Value" THEN "Value" \in words
                    ELSE "Value" \notin words /\ "Wage" \in words
         IN ScanInfos(Tail(infos), field, IF hit THEN Head(infos)[2] ELSE acc)

ContractEndUntilFirst(page) ==
    LET contract_duration == IF page.pos \in {"nospan", "nomatch"} THEN "-" ELSE page.pos
        contract_valid_until == ScanParas(page.paras, "Contract valid until", "-")
    IN IF contract_valid_until # "-" THEN contract_valid_until ELSE contract_duration

\* Lines 211-217
ContractEnd(page) ==
    LET contract_duration == IF page.pos \in {"nospan", "nomatch"} THEN "-" ELSE page.pos
        contract_valid_until == ScanParas(page.paras, "Contract valid until", "-")
    IN IF contract_duration # "-" THEN contract_duration ELSE contract_valid_until

\* Lines 174-219: the tuple returned for a page whose extraction does not raise.
ExtractDetail(page) ==
    << LdValue(page.ld, "height"),
       LdValue(page.ld, "weight"),
       ScanParas(page.paras, "Preferred foot", "-"),
       ScanParas(page.paras, "Skill moves", "-"),
       ScanParas(page.paras, "Weak foot", "-"),
       ContractEnd(page),
       ScanInfos(page.infos, "Value", "-"),
       ScanInfos(page.infos, "Wage", "-"),
       LdValue(page.ld, "nationality") >>

SentinelShort == [i \in 1..(DetailFieldCount - 1) |-> "-"]

\* ["-"] * 9
SentinelDetail == [i \in 1..DetailFieldCount |-> "-"]

NeverNotFound(page) == FALSE

\* Line 164: soup.find("title") and "Page not found" in soup.title.text
IsNotFound(page) == page.notfound

GoodPage ==
    Page(FALSE, Ld("object", "180cm", "75kg", "Brazil"),
         << <<"Preferred foot", "Right">>, <<"Skill moves", "4">>,
            <<"Weak foot", "3">>, <<"Contract valid until", "2027">> >>,
         << <<{"Value"}, "€10M">>, <<{"Wage"}, "€50K">> >>,
         "2020 ~ 2025")
NotFoundPage == [GoodPage EXCEPT !.notfound = TRUE]
EmptyLdPage == Page(FALSE, Ld("empty", Missing, Missing, Missing), <<>>, <<>>, "nospan")

\* The pages the site serves in the runs of the main specification.
DetailPages == {GoodPage, NotFoundPage, EmptyLdPage}

(***************************************************************************)
(* The detail pages of the single-call specification: every combination of *)
(* the sources, the i-th labelled element carrying the i-th value.         *)
(***************************************************************************)
LdSlots(v) == {Missing, NoneVal, v}

Lds ==
    {Ld(k, Missing, Missing, Missing) : k \in {"absent", "empty", "invalid", "nonobject"}}
    \cup {Ld("object", h, w, n) : h \in LdSlots("180cm"), w \in LdSlots("75kg"),
                                  n \in LdSlots("Brazil")}

ParaLabels == {"Preferred foot", "Skill moves", "Weak foot", "Contract valid until",
               "Position"}
InfoWords == {{"Value"}, {"Wage"}, {"Value", "Wage"}}
PosTexts == {"nospan", "nomatch", "2020 ~ 2025"}

Valued(labels, prefix) ==
    [i \in 1..Len(labels) |-> <<labels[i], prefix \o ToString(i)>>]

AllPages ==
    {Page(nf, ld, Valued(pl, "p"), Valued(il, "d"), pos) :
        nf \in BOOLEAN, ld \in Lds, pl \in SeqsUpTo(ParaLabels, MaxParas),
        il \in SeqsUpTo(InfoWords, MaxInfos), pos \in PosTexts}

\* The pages of the single-extraction specification: one paragraph more, so
\* that a label can occur twice; the not-found page is one of them.
ExtractPages ==
    {Page(FALSE, ld, Valued(pl, "p"), Valued(il, "d"), pos) :
        ld \in Lds, pl \in SeqsUpTo(ParaLabels, MaxParas + 1),
        il \in SeqsUpTo(InfoWords, MaxInfos), pos \in PosTexts}
    \cup {NotFoundPage}

(***************************************************************************)
(* The team url and the names of the output files.  A url is the sequence  *)
(* of its "/"-separated segments (what str.split("/") gives), a segment    *)
(* and a file name the sequence of their "."-separated parts:              *)
(*   "team/real.madrid/" is << <<"team">>, <<"real", "madrid">>, <<"">> >> *)
(* The output directory is left out: os.path.join puts it in front and     *)
(* os.path.splitext looks at the last path component only.                 *)
(***************************************************************************)
EmptySeg == <<"">>

RECURSIVE StripRight(_)
StripRight(url) ==
    IF Len(url) > 1 /\ url[Len(url)] = EmptySeg
    THEN StripRight(SubSeq(url, 1, Len(url) - 1)) ELSE url

RECURSIVE StripLeft(_)
StripLeft(url) ==
    IF Len(url) > 1 /\ Head(url) = EmptySeg THEN StripLeft(Tail(url)) ELSE url

\* team_url.strip('/').split('/')[-1]
TeamSlug(url) ==
    LET segs == StripLeft(StripRight(url)) IN segs[Len(segs)]

\* f"{prefix}{slug}"
Prefixed(prefix, slug) == <<prefix \o Head(slug)>> \o Tail(slug)

\* Script_1 line 342: identifier = f"SCRIPT_1_{...}"
Identifier(url) == Prefixed("SCRIPT_1_", TeamSlug(url))

\* Script_2 lines 313-314: filename_prefix = f"SCRIPT_2_{team_name}"
FilenamePrefix(url) == Prefixed("SCRIPT_2_", TeamSlug(url))

\* os.path.splitext(name)[0]: the name up to its last dot; dots that lead
\* the name do not count.
Splitext(name) ==
    IF Len(name) > 1 /\ \E k \in 1..(Len(name) - 1) : name[k] # ""
    THEN SubSeq(name, 1, Len(name) - 1) ELSE name

Extensions == {"xlsx", "txt", "json"}

\* export_all_formats, lines 239-244: base + ".xlsx", ".txt", ".json"
ExportNames(output_path) ==
    LET base == Splitext(output_path) IN {Append(base, e) : e \in Extensions}

\* Script_2 lines 317, 325, 332: f"{filename_prefix}.txt", .json, .xlsx
MinimalNames(url) == {Append(FilenamePrefix(url), e) : e \in Extensions}

\* The --url of the runs of the main specifications.
TeamUrlOfRun ==
    << <<"https:">>, EmptySeg, <<"sofifa", "com">>, <<"team">>, <<"11">>,
       <<"real-madrid">>, EmptySeg >>

SlugParts == {"", "real", "fc"}
UrlSegments == UNION {[1..k -> SlugParts] : k \in 1..(MaxDots + 1)}
TeamUrls == UNION {[1..k -> UrlSegments] : k \in 1..MaxSegments}

(***************************************************************************)
(* State.                                                                  *)
(*   pc        where the script is                                         *)
(*   sg        the running (or last) safe_get call: its caller, `retries`, *)
(*             the loop variable i, the outcome of each driver.get it made *)
(*             and its return value                                        *)
(*   stub      the scripted driver of the safe_get harness                 *)
(*   last_height  scroll_to_bottom's local                                 *)
(*   rows, idx    the listing rows and the loop position (1-based)         *)
(*   full_url  the main block's variable: <<>> while unbound               *)
(*   profile   the running (or last) scrape_player_profile call            *)
(*   all_players_data  the accumulated records                             *)
(*   visits    the urls the detail fetch was called with (either script)   *)
(*   row_log   what each row iteration ended with                          *)
(*   fatal     why the outer handler ran, or "none"                        *)
(*   quits     calls of driver.quit (either script)                        *)
(*   files, written  the content of the output files and which exist       *)
(* Script_2.py:                                                            *)
(*   listing   the running (or last) get_player_urls_from_team call        *)
(*   player_urls, results, url_no  the main block's list of urls, its      *)
(*             records and its loop position (the loop's i)                *)
(*   fetch     the running (or last) scrape_name_value_wage call           *)
(* Both:                                                                   *)
(*   served    the detail page handed to a single extraction               *)
(*   connectable  what driver.service.is_connectable() last answered       *)
(*   team_url  args.url                                                    *)
(*   names     the names of the files written                              *)
(*   scrolled  what a scroll_to_bottom call run alone has done             *)
(***************************************************************************)
VARIABLES pc, sg, stub, last_height, rows, idx, full_url, profile,
          all_players_data, visits, row_log, fatal, quits, files, written,
          listing, player_urls, results, url_no, fetch,
          served, connectable, team_url, names, scrolled

\* The state of the minimal variant, which the full-profile variant lacks.
s2vars == <<listing, player_urls, results, url_no, fetch>>

\* What the main blocks read of their surroundings and what they name.
hvars == <<served, connectable, team_url, names, scrolled>>

vars == <<pc, sg, stub, last_height, rows, idx, full_url, profile,
          all_players_data, visits, row_log, fatal, quits, files, written, s2vars,
          hvars>>

IdleSafeGet == [caller |-> "none", retries |-> 0, i |-> 0, gets |-> <<>>, ret |-> "idle"]

IdleProfile ==
    [url |-> FullUrl(HrefC), attempt |-> 0, navs |-> 0, ret |-> <<>>,
     notfound |-> FALSE, parsed |-> FALSE, active |-> FALSE]

\* An output file as it is on disk: the header line or row (<<>> if the
\* file has none) and the data rows in order.  A row is the sequence of its
\* cells; a cell is its value and the name written with it in the row (a
\* JSON key, an inline label), "" if the row gives it none.
Cell(name, value) == [name |-> name, value |-> value]
File(header, rows_) == [header |-> header, rows |-> rows_]
NoFile == File(<<>>, <<>>)

\* A row of bare values, and a row of named values.
Plain(values) == [j \in 1..Len(values) |-> Cell("", values[j])]
Keyed(keys, values) == [j \in 1..Len(values) |-> Cell(keys[j], values[j])]
NoFiles == [xlsx |-> NoFile, txt |-> NoFile, json |-> NoFile]

IdleListing == [attempt |-> 0, loads |-> 0, gathered |-> <<>>, returned |-> FALSE]
IdleFetch ==
    [url |-> FullUrl(HrefC), attempt |-> 0, navs |-> 0, ret |-> <<>>]

\* scroll_to_bottom run alone: the heights it has measured, the scrolls it
\* has made and whether it has returned.
IdleScroll == [measured |-> <<>>, scrolls |-> 0, returned |-> FALSE]

\* Nothing collected, nothing written, no call running.
InitData ==
    /\ last_height = 0
    /\ rows = <<>>
    /\ idx = 0
    /\ full_url = <<>>
    /\ all_players_data = <<>>
    /\ visits = <<>>
    /\ row_log = <<>>
    /\ fatal = "none"
    /\ quits = 0
    /\ files = NoFiles
    /\ written = {}
    /\ listing = IdleListing
    /\ player_urls = <<>>
    /\ results = <<>>
    /\ url_no = 0
    /\ fetch = IdleFetch
    /\ connectable = TRUE
    /\ names = {}
    /\ scrolled = IdleScroll

InitCommon ==
    /\ team_url = TeamUrlOfRun
    /\ served = GoodPage
    /\ sg = IdleSafeGet
    /\ stub = <<>>
    /\ profile = IdleProfile
    /\ InitData

\* Script_1 after line 269: the driver is constructed, nothing is collected.
Init == pc = "start" /\ InitCommon

(***************************************************************************)
(* safe_get (Script_1, lines 112-134)                                      *)
(***************************************************************************)
\* Entering the function: range(retries) is empty for retries <= 0.
SafeGetCall(caller, retries) ==
    [caller |-> caller, retries |-> retries, i |-> 0, gets |-> <<>>,
     ret |-> IF retries <= 0 THEN "False" ELSE "running"]

SafeGetIterOneMore(s, ok) ==
    IF ok THEN [s EXCEPT !.gets = Append(@, ok), !.ret = "True"]
    ELSE [s EXCEPT !.gets = Append(@, ok), !.i = @ + 1,
                   !.ret = IF s.i + 1 > s.retries THEN "False" ELSE "running"]

\* One iteration of the for loop: driver.get(url) returns (ok) or raises.
SafeGetIter(s, ok) ==
    IF ok THEN [s EXCEPT !.gets = Append(@, ok), !.ret = "True"]
    ELSE [s EXCEPT !.gets = Append(@, ok), !.i = @ + 1,
                   !.ret = IF s.i + 1 >= s.retries THEN "False" ELSE "running"]

\* driver.get inside safe_get, for either caller of the main block.
SafeGetStep ==
    /\ pc = "safe_get"
    /\ sg.ret = "running"
    /\ \E ok \in BOOLEAN : sg' = SafeGetIter(sg, ok)
    /\ profile' = IF sg.caller = "profile"
                  THEN [profile EXCEPT !.navs = @ + 1] ELSE profile
    /\ UNCHANGED <<hvars, s2vars, pc, stub, last_height, rows, idx, full_url, all_players_data,
                   visits, row_log, fatal, quits, files, written>>

(***************************************************************************)
(* Script_1 main block, listing phase (lines 271-283)                      *)
(***************************************************************************)
\* The outer handler (lines 327-328) and then the finally block.
Fatal(cause) ==
    /\ pc' = "finally"
    /\ fatal' = cause

\* Line 273: safe_get(driver, team_url)
TeamGet ==
    /\ pc = "start"
    /\ sg' = SafeGetCall("team", SafeGetDefaultRetries)
    /\ pc' = "safe_get"
    /\ UNCHANGED <<hvars, s2vars, stub, last_height, rows, idx, full_url, profile, all_players_data,
                   visits, row_log, fatal, quits, files, written>>

\* Lines 273-274: a False return raises.
TeamGetReturn ==
    /\ pc = "safe_get"
    /\ sg.caller = "team"
    /\ sg.ret \in {"True", "False"}
    /\ IF sg.ret = "True" THEN pc' = "scroll_init" /\ fatal' = fatal
       ELSE Fatal("load")
    /\ sg' = IdleSafeGet
    /\ UNCHANGED <<hvars, s2vars, stub, last_height, rows, idx, full_url, profile,
                   all_players_data, visits, row_log, quits, files, written>>

Heights == 1..MaxHeight

ScrollExitOnShrink(new_height, old_height) == new_height <= old_height

\* Line 108: if new_height == last_height: break
ScrollExit(new_height, old_height) == new_height = old_height

\* Line 103: the first measurement; execute_script may raise.
ScrollInit ==
    /\ pc = "scroll_init"
    /\ \/ /\ \E h \in Heights : last_height' = h
          /\ pc' = "scroll"
          /\ fatal' = fatal
       \/ /\ Fatal("scroll")
          /\ last_height' = last_height
    /\ UNCHANGED <<hvars, s2vars, sg, stub, rows, idx, full_url, profile, all_players_data,
                   visits, row_log, quits, files, written>>

\* Lines 104-110: one iteration of the while loop; the local is gone on return.
ScrollStep ==
    /\ pc = "scroll"
    /\ \/ \E new_height \in Heights :
             /\ IF ScrollExit(new_height, last_height)
                THEN pc' = "wait_table" /\ last_height' = 0
                ELSE pc' = "scroll" /\ last_height' = new_height
             /\ fatal' = fatal
       \/ /\ Fatal("scroll")
          /\ last_height' = 0
    /\ UNCHANGED <<hvars, s2vars, sg, stub, rows, idx, full_url, profile, all_players_data,
                   visits, row_log, quits, files, written>>

\* Lines 277-283: the wait for a table row, the snapshot and the row list.
WaitTable ==
    /\ pc = "wait_table"
    /\ \/ /\ \E rs \in SeqsUpTo(ListingRows, MaxRows) : rows' = rs
          /\ idx' = 1
          /\ pc' = "rows"
          /\ fatal' = fatal
       \/ /\ \E cause \in {"wait", "source"} : Fatal(cause)
          /\ UNCHANGED <<rows, idx>>
    /\ UNCHANGED <<hvars, s2vars, sg, stub, last_height, full_url, profile, all_players_data,
                   visits, row_log, quits, files, written>>

(***************************************************************************)
(* Script_1 main block, the row loop (lines 286-325)                       *)
(***************************************************************************)
RowEntry(k, kind, logged) == [idx |-> k, kind |-> kind, logged |-> logged]

\* Entering scrape_player_profile(full_url, driver, debug_dir)
ProfileCall(url) ==
    [url |-> url, attempt |-> 0, navs |-> 0, ret |-> <<>>,
     notfound |-> FALSE, parsed |-> FALSE, active |-> TRUE]

RowExceptAbort ==
    /\ Fatal("row")
    /\ idx' = idx

\* Lines 324-325: the handler at the iteration boundary; the for loop goes on.
RowExcept ==
    /\ pc' = "rows"
    /\ idx' = idx + 1
    /\ fatal' = fatal

\* Line 286: the for loop is exhausted; control reaches the finally block.
RowsDone ==
    /\ pc = "rows"
    /\ idx > Len(rows)
    /\ pc' = "finally"
    /\ UNCHANGED <<hvars, s2vars, sg, stub, last_height, rows, idx, full_url, profile,
                   all_players_data, visits, row_log, fatal, quits, files, written>>

RowSkipUnwarned ==
    /\ pc = "rows"
    /\ idx <= Len(rows)
    /\ rows[idx].ncols < MinColumns \/ ~rows[idx].anchor.present
    /\ row_log' = Append(row_log, RowEntry(idx, "skipped", <<>>))
    /\ idx' = idx + 1
    /\ UNCHANGED <<hvars, s2vars, pc, sg, stub, last_height, rows, full_url, profile,
                   all_players_data, visits, fatal, quits, files, written>>

\* Lines 288-295: a row with too few cells (warning) or without an anchor.
RowSkip ==
    /\ pc = "rows"
    /\ idx <= Len(rows)
    /\ LET row == rows[idx] IN
          /\ row.ncols < MinColumns \/ ~row.anchor.present
          /\ row_log' = Append(row_log,
                 RowEntry(idx, IF row.ncols < MinColumns THEN "warned" ELSE "skipped",
                          <<>>))
    /\ idx' = idx + 1
    /\ UNCHANGED <<hvars, s2vars, pc, sg, stub, last_height, rows, full_url, profile,
                   all_players_data, visits, fatal, quits, files, written>>

RowRaiseFatal ==
    /\ pc = "rows"
    /\ idx <= Len(rows)
    /\ rows[idx].ncols >= MinColumns
    /\ rows[idx].anchor.present
    /\ ~rows[idx].anchor.has_href
    /\ row_log' = Append(row_log, RowEntry(idx, "error", full_url))
    /\ Fatal("row")
    /\ UNCHANGED <<hvars, s2vars, sg, stub, last_height, rows, idx, full_url, profile,
                   all_players_data, visits, quits, files, written>>

\* Line 298: name_tag['href'] raises KeyError for an anchor without href;
\* the handler logs full_url as it is bound at that moment.
RowRaise ==
    /\ pc = "rows"
    /\ idx <= Len(rows)
    /\ LET row == rows[idx] IN
          /\ row.ncols >= MinColumns
          /\ row.anchor.present
          /\ ~row.anchor.has_href
    /\ row_log' = Append(row_log, RowEntry(idx, "error", full_url))
    /\ RowExcept
    /\ UNCHANGED <<hvars, s2vars, sg, stub, last_height, rows, full_url, profile,
                   all_players_data, visits, quits, files, written>>

\* Lines 297-312: a well-formed row; full_url is bound and the profile is fetched.
RowFetch ==
    /\ pc = "rows"
    /\ idx <= Len(rows)
    /\ LET row == rows[idx] IN
          /\ row.ncols >= MinColumns
          /\ row.anchor.present
          /\ row.anchor.has_href
          /\ full_url' = <<FullUrl(row.anchor.href)>>
          /\ profile' = ProfileCall(FullUrl(row.anchor.href))
          /\ visits' = Append(visits, FullUrl(row.anchor.href))
    /\ pc' = "profile_loop"
    /\ UNCHANGED <<hvars, s2vars, sg, stub, last_height, rows, idx, all_players_data,
                   row_log, fatal, quits, files, written>>

(***************************************************************************)
(* scrape_player_profile (Script_1, lines 136-225)                         *)
(***************************************************************************)
\* Lines 221-223 (and the `continue` of line 158): the attempt is used up.
ProfileExcept(p) == [p EXCEPT !.attempt = @ + 1]

\* Lines 155, 157, 225: the next attempt starts with a safe_get, or the loop
\* is exhausted and the sentinel list is returned.
ProfileAttempt ==
    /\ pc = "profile_loop"
    /\ IF profile.attempt < ProfileMaxRetries
       THEN /\ sg' = SafeGetCall("profile", SafeGetDefaultRetries)
            /\ profile' = [profile EXCEPT !.notfound = FALSE, !.parsed = FALSE]
            /\ pc' = "safe_get"
       ELSE /\ profile' = [profile EXCEPT !.ret = SentinelDetail]
            /\ pc' = "append"
            /\ sg' = sg
    /\ UNCHANGED <<hvars, s2vars, stub, last_height, rows, idx, full_url, all_players_data,
                   visits, row_log, fatal, quits, files, written>>

\* Lines 157-158: `continue` when safe_get gave up.
ProfileGetReturn ==
    /\ pc = "safe_get"
    /\ sg.caller = "profile"
    /\ sg.ret \in {"True", "False"}
    /\ IF sg.ret = "True"
       THEN pc' = "profile_page" /\ profile' = profile
       ELSE pc' = "profile_loop" /\ profile' = ProfileExcept(profile)
    /\ sg' = IdleSafeGet
    /\ UNCHANGED <<hvars, s2vars, stub, last_height, rows, idx, full_url, all_players_data,
                   visits, row_log, fatal, quits, files, written>>

\* Lines 160-219 of one attempt, for the page the browser holds.
\*   loaded = FALSE: the wait or page_source raised.
\*   debug_ok = FALSE: writing the debug snapshot raised.
ProfileBody(p, loaded, page, debug_ok) ==
    IF ~loaded THEN ProfileExcept(p)
    ELSE IF IsNotFound(page)
         THEN [p EXCEPT !.notfound = page.notfound, !.ret = SentinelDetail]
    ELSE IF ~debug_ok THEN ProfileExcept([p EXCEPT !.notfound = page.notfound])
    ELSE IF LdRaises(page.ld)
         THEN ProfileExcept([p EXCEPT !.notfound = page.notfound, !.parsed = TRUE])
    ELSE [p EXCEPT !.notfound = page.notfound, !.parsed = TRUE,
                   !.ret = ExtractDetail(page)]

ProfilePageFrom(Pages) ==
    /\ pc = "profile_page"
    /\ \/ \E page \in Pages, debug_ok \in BOOLEAN :
             profile' = ProfileBody(profile, TRUE, page, debug_ok)
       \/ profile' = ProfileBody(profile, FALSE, GoodPage, TRUE)
    /\ pc' = IF profile'.ret # <<>> THEN "append" ELSE "profile_loop"
    /\ UNCHANGED <<hvars, s2vars, sg, stub, last_height, rows, idx, full_url, all_players_data,
                   visits, row_log, fatal, quits, files, written>>

ProfilePage == ProfilePageFrom(DetailPages)

\* Lines 314-317
PlayerData(row, d) ==
    [ID |-> PlayerIdOf(row.anchor.href), Name |-> row.anchor.text, Age |-> row.age,
     Overall |-> row.overall, Potential |-> row.potential, Position |-> row.pos,
     Height |-> d[1], Weight |-> d[2], PrefFoot |-> d[3], SkillMoves |-> d[4],
     WeakFoot |-> d[5], Contract |-> d[6], Nationality |-> d[9]]

\* Lines 311-322: the nine values are unpacked (a result of another length
\* raises ValueError into the row handler) and the record is appended.
AppendRecord ==
    /\ pc = "append"
    /\ profile.active
    /\ IF Len(profile.ret) = DetailFieldCount
       THEN /\ all_players_data' = Append(all_players_data,
                                          PlayerData(rows[idx], profile.ret))
            /\ row_log' = Append(row_log, RowEntry(idx, "record", <<>>))
            /\ pc' = "rows"
            /\ idx' = idx + 1
            /\ fatal' = fatal
       ELSE /\ all_players_data' = all_players_data
            /\ row_log' = Append(row_log, RowEntry(idx, "error", full_url))
            /\ RowExcept
    /\ profile' = IdleProfile
    /\ UNCHANGED <<hvars, s2vars, sg, stub, last_height, rows, full_url, visits, quits,
                   files, written>>

(***************************************************************************)
(* Script_1 main block, the finally block (lines 330-347)                  *)
(***************************************************************************)
Perms(n) == {q \in [1..n -> 1..n] : \A i, j \in 1..n : i # j => q[i] # q[j]}

Reorder(df, q) == [i \in 1..Len(df) |-> df[q[i]]]

\* Line 341: df.sort_values(by="ID").reset_index(drop=True).  ID is a column
\* of str, so the order is Python's string order; the default sort kind is
\* quicksort, which does not promise to keep equal keys in their order, so
\* every arrangement of equal keys is a possible outcome.
SortValues(df) ==
    {Reorder(df, q) : q \in {r \in Perms(Len(df)) :
        \A i \in 1..(Len(df) - 1) : StrLeq(df[r[i]].ID, df[r[i + 1]].ID)}}

\* Lines 332-333: quit only if the driver service still answers.
CloseDriver ==
    /\ pc = "finally"
    /\ \E answer \in BOOLEAN :
          /\ connectable' = answer
          /\ quits' = IF answer THEN quits + 1 ELSE quits
    /\ pc' = "export"
    /\ UNCHANGED <<served, team_url, names, scrolled, s2vars, sg, stub, last_height, rows, idx, full_url, profile,
                   all_players_data, visits, row_log, fatal, files, written>>

\* Lines 335-339: the columns of the frame, in order.
Columns ==
    <<"ID", "Name", "Age", "Overall", "Potential", "Position", "Height", "Weight",
      "Pref.Foot", "Skill Moves", "Weak Foot", "Contract", "Nationality">>

\* pd.DataFrame(all_players_data, columns=[...]): the 13 values of a record,
\* in the order of the list of lines 314-317, under the columns by position.
FrameRow(r) ==
    <<r.ID, r.Name, r.Age, r.Overall, r.Potential, r.Position, r.Height, r.Weight,
      r.PrefFoot, r.SkillMoves, r.WeakFoot, r.Contract, r.Nationality>>

\* Line 242: to_excel(index=False): the column names, then the rows.
ToExcel(columns, df) == File(columns, [i \in 1..Len(df) |-> Plain(FrameRow(df[i]))])

\* Line 243: to_csv(sep="|", index=False): the column names, then the rows.
ToCsv(columns, df) == File(columns, [i \in 1..Len(df) |-> Plain(FrameRow(df[i]))])

\* Line 244: to_json(orient="records"): one object per row, the columns as
\* its keys; no row, no keys.
ToJson(columns, df) ==
    File(<<>>, [i \in 1..Len(df) |-> Keyed(columns, FrameRow(df[i]))])

\* Lines 335-344 and export_all_formats (lines 227-244): the frame is built
\* from the accumulated records, sorted by ID, and written three times under
\* the names made from the team url.
ExportAll ==
    /\ pc = "export"
    /\ \E df \in SortValues(all_players_data) :
          files' = [xlsx |-> ToExcel(Columns, df),
                    txt |-> ToCsv(Columns, df),
                    json |-> ToJson(Columns, df)]
    /\ written' = Extensions
    /\ names' = ExportNames(Identifier(team_url))
    /\ pc' = "done"
    /\ UNCHANGED <<served, connectable, team_url, scrolled, s2vars, sg, stub, last_height, rows, idx, full_url, profile,
                   all_players_data, visits, row_log, fatal, quits>>

Next ==
    \/ TeamGet
    \/ SafeGetStep
    \/ TeamGetReturn
    \/ ScrollInit
    \/ ScrollStep
    \/ WaitTable
    \/ RowsDone
    \/ RowSkip
    \/ RowRaise
    \/ RowFetch
    \/ ProfileAttempt
    \/ ProfileGetReturn
    \/ ProfilePage
    \/ AppendRecord
    \/ CloseDriver
    \/ ExportAll

Spec == Init /\ [][Next]_vars

\* The script is one thread that runs until it ends: no step waits forever.
FairSpec == Spec /\ WF_vars(Next)

(***************************************************************************)
(* Script_2.py: the minimal variant                                        *)
(***************************************************************************)
\* An anchor of the team page as find_elements returns it: the resolved
\* href, here the path and whether a query string follows it.
Link(href, query) == [href |-> href, query |-> query]
HrefD == Href("player", <<>>)
Links == {Link(HrefA, ""), Link(HrefA, "?type=all"), Link(HrefB, ""), Link(HrefD, "")}

\* a.get_attribute("href").split("?")[0]
CleanUrl(a) == FullUrl(a.href)

\* Line 168: the comprehension with its "/player/" filter.
RECURSIVE GatherUrls(_)
GatherUrls(players) ==
    IF players = <<>> THEN <<>>
    ELSE IF Head(players).href.kind = "player"
         THEN <<CleanUrl(Head(players))>> \o GatherUrls(Tail(players))
         ELSE GatherUrls(Tail(players))

InSeq(x, seq) == \E k \in 1..Len(seq) : seq[k] = x

RECURSIVE KeepLast(_)
KeepLast(seq) ==
    IF seq = <<>> THEN <<>>
    ELSE IF InSeq(Head(seq), Tail(seq)) THEN KeepLast(Tail(seq))
         ELSE <<Head(seq)>> \o KeepLast(Tail(seq))

RECURSIVE FromKeys(_, _)
FromKeys(seq, acc) ==
    IF seq = <<>> THEN acc
    ELSE FromKeys(Tail(seq), IF InSeq(Head(seq), acc) THEN acc ELSE Append(acc, Head(seq)))

\* Line 179: list(dict.fromkeys(player_urls)); a dict keeps its keys in
\* insertion order and a key that is already there keeps its place.
DictFromKeys(seq) == FromKeys(seq, <<>>)

\* A player page as scrape_name_value_wage reads it: the <h1> text (<<>> if
\* there is none) and the div.grid div.col elements, each with the text of
\* its div.sub and of its <em> (<<>> if absent).
PlayerPage(h1, cols) == [h1 |-> h1, cols |-> cols]
Col(sub, em) == [sub |-> sub, em |-> em]

\* Lines 227-239: every matching column assigns.
RECURSIVE ScanCols(_, _, _)
ScanCols(cols, label, acc) ==
    IF cols = <<>> THEN acc
    ELSE LET c == Head(cols)
             hit == c.sub # <<>> /\ c.em # <<>> /\ c.sub[1] = label
         IN ScanCols(Tail(cols), label, IF hit THEN c.em[1] ELSE acc)

\* Lines 225-241: (player_id, name, value, wage)
NameValueWage(player_id, page) ==
    << player_id,
       IF page.h1 # <<>> THEN page.h1[1] ELSE "-",
       ScanCols(page.cols, "Value", "-"),
       ScanCols(page.cols, "Wage", "-") >>

PlayerPages ==
    {PlayerPage(<<"L. Messi">>, <<Col(<<"Value">>, <<"€10M">>), Col(<<"Wage">>, <<"€50K">>)>>),
     PlayerPage(<<>>, <<Col(<<"Value">>, <<>>), Col(<<>>, <<"€1K">>)>>)}

\* Script_2 after line 274: the driver is constructed.
InitMinimal ==
    /\ pc = "discover"
    /\ InitCommon

\* Lines 181-184: the handler of get_player_urls_from_team.
ListingExcept ==
    /\ listing' = [listing EXCEPT !.attempt = @ + 1]
    /\ pc' = "discover"
    /\ last_height' = 0

ListingRetryOneMore(attempt) == attempt <= ListingMaxRetries

\* Line 145: while attempt < max_retries
ListingRetry(attempt) == attempt < ListingMaxRetries

\* Lines 145-149 and 186: the loop test, then driver.get(team_url).
ListingLoad ==
    /\ pc = "discover"
    /\ IF ListingRetry(listing.attempt)
       THEN \E ok \in BOOLEAN :
               IF ok
               THEN /\ listing' = [listing EXCEPT !.loads = @ + 1]
                    /\ pc' = "team_scroll_init"
               ELSE /\ listing' = [listing EXCEPT !.loads = @ + 1, !.attempt = @ + 1]
                    /\ pc' = "discover"
       ELSE /\ listing' = [listing EXCEPT !.returned = TRUE]
            /\ pc' = "urls_returned"
    /\ player_urls' = <<>>
    /\ UNCHANGED <<hvars, sg, stub, last_height, rows, idx, full_url, profile,
                   all_players_data, visits, row_log, fatal, quits, files, written,
                   results, url_no, fetch>>

\* Line 118, inside the try of get_player_urls_from_team.
TeamScrollInit ==
    /\ pc = "team_scroll_init"
    /\ \/ /\ \E h \in Heights : last_height' = h
          /\ pc' = "team_scroll"
          /\ listing' = listing
       \/ ListingExcept
    /\ UNCHANGED <<hvars, sg, stub, rows, idx, full_url, profile, all_players_data,
                   visits, row_log, fatal, quits, files, written,
                   player_urls, results, url_no, fetch>>

\* Lines 119-129
TeamScrollStep ==
    /\ pc = "team_scroll"
    /\ \/ /\ \E new_height \in Heights :
                IF ScrollExit(new_height, last_height)
                THEN pc' = "gather" /\ last_height' = 0
                ELSE pc' = "team_scroll" /\ last_height' = new_height
          /\ listing' = listing
       \/ ListingExcept
    /\ UNCHANGED <<hvars, sg, stub, rows, idx, full_url, profile, all_players_data,
                   visits, row_log, fatal, quits, files, written,
                   player_urls, results, url_no, fetch>>

\* Lines 153-179: the page dump, the wait for tbody, the anchors, the list.
Gather ==
    /\ pc = "gather"
    /\ \/ \E players \in SeqsUpTo(Links, MaxLinks) :
             /\ listing' = [listing EXCEPT !.gathered = GatherUrls(players),
                                           !.returned = TRUE]
             /\ player_urls' = DictFromKeys(GatherUrls(players))
             /\ pc' = "urls_returned"
             /\ last_height' = last_height
       \/ /\ ListingExcept
          /\ player_urls' = player_urls
    /\ UNCHANGED <<hvars, sg, stub, rows, idx, full_url, profile, all_players_data,
                   visits, row_log, fatal, quits, files, written,
                   results, url_no, fetch>>

\* Lines 279-286: no urls: quit and exit; else the loop starts.
CheckUrls ==
    /\ pc = "urls_returned"
    /\ IF player_urls = <<>>
       THEN /\ quits' = quits + 1
            /\ pc' = "finished"
            /\ url_no' = url_no
       ELSE /\ quits' = quits
            /\ pc' = "players"
            /\ url_no' = 1
    /\ listing' = IdleListing
    /\ UNCHANGED <<hvars, sg, stub, last_height, rows, idx, full_url, profile,
                   all_players_data, visits, row_log, fatal, files, written,
                   player_urls, results, fetch>>

\* Entering scrape_name_value_wage(url, driver): lines 202-207.
FetchCall(url) ==
    [url |-> url, attempt |-> 0, navs |-> 0, ret |-> <<>>]

FetchDefaultNoId(player_id) == <<Dash, "-", "-", "-">>

\* Line 249: return player_id, "-", "-", "-"
FetchDefault(player_id) == <<player_id, "-", "-", "-">>

LoopUrlBackwards(urls, k) == urls[Len(urls) + 1 - k]

\* Line 289: for i, url in enumerate(player_urls, start=1)
LoopUrl(urls, k) == urls[k]

\* Lines 289-293 and 306: the next url, or the loop is over.
NextPlayer ==
    /\ pc = "players"
    /\ IF url_no <= Len(player_urls)
       THEN /\ fetch' = FetchCall(LoopUrl(player_urls, url_no))
            /\ visits' = Append(visits, LoopUrl(player_urls, url_no))
            /\ pc' = "fetch"
       ELSE /\ fetch' = fetch
            /\ visits' = visits
            /\ pc' = "quit"
    /\ UNCHANGED <<hvars, sg, stub, last_height, rows, idx, full_url, profile,
                   all_players_data, row_log, fatal, quits, files, written,
                   listing, player_urls, results, url_no>>

\* Lines 209-249: one pass of the while loop: the loop test, then
\* driver.get, the wait and the parse, any of which may raise.
FetchAttempt ==
    /\ pc = "fetch"
    /\ LET player_id == PlayerIdOf(fetch.url.href) IN
       IF fetch.attempt < FetchMaxRetries
       THEN \/ /\ fetch' = [fetch EXCEPT !.navs = @ + 1, !.attempt = @ + 1]
               /\ pc' = "fetch"
            \/ \E page \in PlayerPages :
                  /\ fetch' = [fetch EXCEPT !.navs = @ + 1,
                                            !.ret = NameValueWage(player_id, page)]
                  /\ pc' = "fetched"
       ELSE /\ fetch' = [fetch EXCEPT !.ret = FetchDefault(player_id)]
            /\ pc' = "fetched"
    /\ UNCHANGED <<hvars, sg, stub, last_height, rows, idx, full_url, profile,
                   all_players_data, visits, row_log, fatal, quits, files, written,
                   listing, player_urls, results, url_no>>

\* Lines 293-304
AppendResult ==
    /\ pc = "fetched"
    /\ results' = Append(results, [ID |-> fetch.ret[1], Name |-> fetch.ret[2],
                                   Value |-> fetch.ret[3], Wage |-> fetch.ret[4]])
    /\ url_no' = url_no + 1
    /\ fetch' = IdleFetch
    /\ pc' = "players"
    /\ UNCHANGED <<hvars, sg, stub, last_height, rows, idx, full_url, profile,
                   all_players_data, visits, row_log, fatal, quits, files, written,
                   listing, player_urls>>

\* Line 306
QuitDriver ==
    /\ pc = "quit"
    /\ quits' = quits + 1
    /\ pc' = "save"
    /\ UNCHANGED <<hvars, sg, stub, last_height, rows, idx, full_url, profile,
                   all_players_data, visits, row_log, fatal, files, written, s2vars>>

\* Line 336: ws.append(["ID", "Name", "Value", "Wage"])
MinimalFields == <<"ID", "Name", "Value", "Wage">>

TxtLineWageFirst(player) ==
    <<Cell("", player.ID), Cell("", player.Name),
      Cell("Wage", player.Wage), Cell("Value", player.Value)>>

\* Line 320: f"{ID} | {Name} | Value: {Value} | Wage: {Wage}\n"
TxtLine(player) ==
    <<Cell("", player.ID), Cell("", player.Name),
      Cell("Value", player.Value), Cell("Wage", player.Wage)>>

\* Lines 325-327: json.dump(results): each dict with its keys in the order
\* of insertion (line 296).
JsonDump(rs) ==
    File(<<>>, [i \in 1..Len(rs) |->
                   Keyed(<<"ID", "Name", "Value", "Wage">>,
                         <<rs[i].ID, rs[i].Name, rs[i].Value, rs[i].Wage>>)])

\* Line 338: ws.append([row["ID"], row["Name"], row["Value"], row["Wage"]])
XlsxRow(row) == Plain(<<row.ID, row.Name, row.Value, row.Wage>>)

\* Lines 309-355: the files are written only `if results`; the text file has
\* one line per record and no header line, the workbook starts with the
\* column names.
SaveResults ==
    /\ pc = "save"
    /\ IF results # <<>>
       THEN /\ files' = [txt |-> File(<<>>, [i \in 1..Len(results) |-> TxtLine(results[i])]),
                         json |-> JsonDump(results),
                         xlsx |-> File(MinimalFields,
                                       [i \in 1..Len(results) |-> XlsxRow(results[i])])]
            /\ written' = Extensions
            /\ names' = MinimalNames(team_url)
       ELSE UNCHANGED <<files, written, names>>
    /\ pc' = "finished"
    /\ UNCHANGED <<served, connectable, team_url, scrolled, sg, stub, last_height, rows, idx, full_url, profile,
                   all_players_data, visits, row_log, fatal, quits, s2vars>>

NextMinimal ==
    \/ ListingLoad
    \/ TeamScrollInit
    \/ TeamScrollStep
    \/ Gather
    \/ CheckUrls
    \/ NextPlayer
    \/ FetchAttempt
    \/ AppendResult
    \/ QuitDriver
    \/ SaveResults

SpecMinimal == InitMinimal /\ [][NextMinimal]_vars

FairSpecMinimal == SpecMinimal /\ WF_vars(NextMinimal)

(***************************************************************************)
(* Either script, for what is said of both variants.                       *)
(***************************************************************************)
InitBoth == Init \/ InitMinimal

NextBoth == Next \/ NextMinimal

SpecBoth == InitBoth /\ [][NextBoth]_vars

(***************************************************************************)
(* safe_get alone, against a scripted driver: stub[k] tells whether the    *)
(* k-th driver.get returns (TRUE) or raises (FALSE).                       *)
(***************************************************************************)
StubOutcome(k) == IF k <= Len(stub) THEN stub[k] ELSE FALSE

InitSafeGet ==
    /\ pc = "safe_get_stub"
    /\ \E n \in 0..MaxRetriesArg : sg = SafeGetCall("stub", n)
    /\ stub \in [1..MaxRetriesArg -> BOOLEAN]
    /\ profile = IdleProfile
    /\ team_url = TeamUrlOfRun
    /\ served = GoodPage
    /\ InitData

SafeGetStub ==
    /\ pc = "safe_get_stub"
    /\ sg.ret = "running"
    /\ sg' = SafeGetIter(sg, StubOutcome(Len(sg.gets) + 1))
    /\ UNCHANGED <<hvars, s2vars, pc, stub, last_height, rows, idx, full_url, profile,
                   all_players_data, visits, row_log, fatal, quits, files, written>>

NextSafeGet == SafeGetStub

SpecSafeGet == InitSafeGet /\ [][NextSafeGet]_vars

(***************************************************************************)
(* scroll_to_bottom alone, against a scripted page: stub[k] is the k-th    *)
(* height the page reports; once the script is over the page keeps its     *)
(* last height.                                                            *)
(***************************************************************************)
Measure(k) == IF k <= Len(stub) THEN stub[k] ELSE stub[Len(stub)]

InitScroll ==
    /\ pc = "scroll_stub_init"
    /\ stub \in [1..MaxMeasures -> Heights]
    /\ sg = IdleSafeGet
    /\ profile = IdleProfile
    /\ team_url = TeamUrlOfRun
    /\ served = GoodPage
    /\ InitData

\* Line 103: the first measurement.
ScrollStubInit ==
    /\ pc = "scroll_stub_init"
    /\ last_height' = Measure(1)
    /\ scrolled' = [scrolled EXCEPT !.measured = <<Measure(1)>>]
    /\ pc' = "scroll_stub"
    /\ UNCHANGED <<served, connectable, team_url, names, s2vars, sg, stub, rows, idx,
                   full_url, profile, all_players_data, visits, row_log, fatal, quits,
                   files, written>>

\* Lines 104-110: one iteration: scroll, measure, compare.
ScrollStubStep ==
    /\ pc = "scroll_stub"
    /\ Len(scrolled.measured) <= MaxMeasures
    /\ LET new_height == Measure(Len(scrolled.measured) + 1)
           exit == ScrollExit(new_height, last_height)
       IN /\ scrolled' = [measured |-> Append(scrolled.measured, new_height),
                          scrolls |-> scrolled.scrolls + 1,
                          returned |-> exit]
          /\ last_height' = IF exit THEN last_height ELSE new_height
          /\ pc' = IF exit THEN "scrolled" ELSE "scroll_stub"
    /\ UNCHANGED <<served, connectable, team_url, names, s2vars, sg, stub, rows, idx,
                   full_url, profile, all_players_data, visits, row_log, fatal, quits,
                   files, written>>

NextScroll == ScrollStubInit \/ ScrollStubStep

SpecScroll == InitScroll /\ [][NextScroll]_vars

(***************************************************************************)
(* One call of scrape_player_profile, over the generated pages.            *)
(***************************************************************************)
InitProfile ==
    /\ pc = "profile_loop"
    /\ \E h \in {HrefA, HrefC} : profile = ProfileCall(FullUrl(h))
    /\ sg = IdleSafeGet
    /\ stub = <<>>
    /\ team_url = TeamUrlOfRun
    /\ served = GoodPage
    /\ InitData

ProfilePageAny == ProfilePageFrom(AllPages)

NextProfile ==
    \/ ProfileAttempt
    \/ SafeGetStep
    \/ ProfileGetReturn
    \/ ProfilePageAny

SpecProfile == InitProfile /\ [][NextProfile]_vars

(***************************************************************************)
(* One attempt of scrape_player_profile on a page that loaded: the         *)
(* extraction as a function of the page.                                   *)
(***************************************************************************)
InitExtract ==
    /\ pc = "extract"
    /\ served \in ExtractPages
    /\ profile = ProfileCall(FullUrl(HrefA))
    /\ sg = IdleSafeGet
    /\ stub = <<>>
    /\ team_url = TeamUrlOfRun
    /\ InitData

\* Lines 160-219 of the first attempt, the page and the debug file both fine.
ExtractServed ==
    /\ pc = "extract"
    /\ profile' = ProfileBody(profile, TRUE, served, TRUE)
    /\ pc' = "extracted"
    /\ UNCHANGED <<hvars, s2vars, sg, stub, last_height, rows, idx, full_url,
                   all_players_data, visits, row_log, fatal, quits, files, written>>

NextExtract == ExtractServed

SpecExtract == InitExtract /\ [][NextExtract]_vars

(***************************************************************************)
(* The naming of the output files alone, as a function of the team url.    *)
(***************************************************************************)
InitNames ==
    /\ pc = "name_files"
    /\ team_url \in TeamUrls
    /\ served = GoodPage
    /\ profile = IdleProfile
    /\ sg = IdleSafeGet
    /\ stub = <<>>
    /\ InitData

\* Script_1 lines 342-344 with export_all_formats, lines 239-244.
NameFull ==
    /\ pc = "name_files"
    /\ names' = ExportNames(Identifier(team_url))
    /\ pc' = "named_full"
    /\ UNCHANGED <<served, connectable, team_url, scrolled, s2vars, sg, stub, last_height, rows,
                   idx, full_url, profile, all_players_data, visits, row_log, fatal,
                   quits, files, written>>

\* Script_2 lines 313-332.
NameMinimal ==
    /\ pc = "name_files"
    /\ names' = MinimalNames(team_url)
    /\ pc' = "named_minimal"
    /\ UNCHANGED <<served, connectable, team_url, scrolled, s2vars, sg, stub, last_height, rows,
                   idx, full_url, profile, all_players_data, visits, row_log, fatal,
                   quits, files, written>>

NextNames == NameFull \/ NameMinimal

SpecNames == InitNames /\ [][NextNames]_vars

(***************************************************************************)
(* Properties of safe_get (SpecSafeGet)                                    *)
(***************************************************************************)
\* The first k for which the scripted driver does not raise, or 0.
FirstSuccess(n) ==
    IF \E k \in 1..n : StubOutcome(k)
    THEN CHOOSE k \in 1..n : StubOutcome(k) /\ \A j \in 1..(k - 1) : ~StubOutcome(j)
    ELSE 0

\* C1: safe_get(driver, url, retries=n) returns True after exactly k
\* navigations when attempt k <= n is the first that does not raise, and
\* False after exactly n navigations when all n raise; it stops navigating
\* as soon as it has returned.
C1_SafeGetRetryBound ==
    LET n == sg.retries
        k == FirstSuccess(n)
    IN /\ \A j \in 1..Len(sg.gets) : sg.gets[j] = StubOutcome(j)
       /\ sg.ret = "True" => k > 0 /\ Len(sg.gets) = k
       /\ sg.ret = "False" => k = 0 /\ Len(sg.gets) = n
       /\ sg.ret = "running" => Len(sg.gets) < n /\ (k = 0 \/ Len(sg.gets) < k)
       /\ sg.ret \in {"True", "False", "running"}

\* safe_get with 3 retries has returned True on its second navigation.
C1_Witness ==
    /\ sg.caller = "stub"
    /\ sg.retries = 3
    /\ sg.ret = "True"
    /\ sg.gets = <<FALSE, TRUE>>

(***************************************************************************)
(* Properties of scrape_player_profile (SpecProfile)                       *)
(***************************************************************************)
AllSentinel(d) == Len(d) = 9 /\ \A i \in 1..9 : d[i] = "-"

\* C5: scrape_player_profile always comes to a return, whatever fails, and
\* what it returns has exactly nine fields; after max_retries failed attempts
\* all nine are "-".
C5_ProfileTotal ==
    /\ pc = "append" =>
          /\ Len(profile.ret) = 9
          /\ profile.attempt >= ProfileMaxRetries => AllSentinel(profile.ret)
    /\ pc # "append" => profile.ret = <<>> /\ ENABLED NextProfile

\* All three attempts failed and the call returned.
C5_Witness ==
    /\ pc = "append"
    /\ profile.attempt = ProfileMaxRetries
    /\ profile.parsed

\* C6: one call of the detail fetch issues at most maxRetries (3)
\* driver.get navigations.
C6_NavigationsBounded == profile.navs <= ProfileMaxRetries

\* C7: once the loaded page is a not-found page the call has returned the
\* all-sentinel result: it is in no further attempt, navigation or page
\* read, and no extraction ran on the page.
C7_NotFoundShortCircuit ==
    profile.notfound =>
       /\ pc = "append"
       /\ AllSentinel(profile.ret)
       /\ ~profile.parsed

\* A not-found page came up on the second attempt, with one attempt unused.
C7_Witness ==
    /\ profile.notfound
    /\ pc = "append"
    /\ profile.attempt = 1
    /\ profile.navs = 2

(***************************************************************************)
(* Properties of the full-profile run (Spec, FairSpec)                     *)
(***************************************************************************)
AllFiles == {"xlsx", "txt", "json"}

\* What a reader gets back from a file: the values of each row, in order.
RowValues(row) == [j \in 1..Len(row) |-> row[j].value]
FileValues(f) == [i \in 1..Len(f.rows) |-> RowValues(f.rows[i])]

\* The accumulated records as rows of values.
Accumulated == [i \in 1..Len(all_players_data) |-> FrameRow(all_players_data[i])]

\* Same records, each as often, in some order.
SameRecords(a, b) ==
    /\ Len(a) = Len(b)
    /\ \E q \in Perms(Len(b)) : a = Reorder(b, q)

Exported ==
    /\ pc = "done"
    /\ written = AllFiles
    /\ \A f \in AllFiles : SameRecords(FileValues(files[f]), Accumulated)

\* Every run that ends has exported: the finally block is reached from the
\* normal path and from every fatal path, also with no records.
ExportedWhenStopped ==
    /\ pc # "done" => ENABLED Next
    /\ pc = "done" => Exported

\* C2: every full-profile run that has constructed the browser session
\* reaches the export step and writes the three files with exactly the
\* records accumulated so far.
C2_AlwaysExports == <>Exported

HasRowError == \E i \in 1..Len(row_log) : row_log[i].kind = "error"

\* C4: an exception in listing row k does not stop the loop: when the loop
\* is left every row has had its iteration, in order, the fatal path was not
\* entered, and the run goes on to its end.
C4_RowFailureIsolated ==
    /\ [](HasRowError /\ pc \in {"finally", "export", "done"} =>
             /\ fatal = "none"
             /\ Len(row_log) = Len(rows)
             /\ \A i \in 1..Len(rows) : row_log[i].idx = i)
    /\ (HasRowError ~> pc = "done")

\* Row 1 raised, row 2 then gave a record, and the run has ended.
C4_Witness ==
    /\ pc = "done"
    /\ Len(row_log) >= 2
    /\ row_log[1].kind = "error"
    /\ row_log[2].kind = "record"
    /\ Len(files.json.rows) >= 1

\* C9: a detail url that occurs in two listing rows is visited once and has
\* one record in the output.
C9_DetailUrlVisitedOnce ==
    /\ \A i, j \in 1..Len(visits) : i # j => visits[i] # visits[j]
    /\ pc = "done" => Len(files.json.rows) = Cardinality({visits[i] : i \in 1..Len(visits)})

IsDigits(id) == Len(id) > 0 /\ \A i \in 1..Len(id) : id[i] \in 48..57

RECURSIVE NumVal(_)
NumVal(id) == IF id = <<>> THEN 0
              ELSE 10 * NumVal(SubSeq(id, 1, Len(id) - 1)) + (id[Len(id)] - 48)

\* Ascending order of ids as the claim reads it: digit strings by value.
IdBefore(a, b) ==
    IF IsDigits(a) /\ IsDigits(b) THEN NumVal(a) < NumVal(b) ELSE StrLess(a, b)

\* C10: the exported rows are the accumulated records in ascending order of
\* id, where ids that are digit strings are ordered by their numeric value
\* (id 20 precedes id 100).
C10_SortedByNumericId ==
    pc = "done" =>
       /\ SameRecords(FileValues(files.json), Accumulated)
       /\ \A i, j \in 1..Len(files.json.rows) :
             i < j => ~IdBefore(files.json.rows[j][1].value, files.json.rows[i][1].value)

(***************************************************************************)
(* Properties of the minimal run (SpecMinimal)                             *)
(***************************************************************************)
\* C3: the minimal variant always writes the three output files at the end
\* of the run, also when the listing discovery fails on every attempt or
\* yields no links and when there are no records.
C3_MinimalAlwaysWrites == pc = "finished" => written = AllFiles

\* scrape_name_value_wage navigates once per pass of its while loop, so one
\* call issues at most max_retries navigations.
FetchNavigationsBounded == fetch.navs <= FetchMaxRetries

FirstIndex(seq, x) ==
    CHOOSE k \in 1..Len(seq) : seq[k] = x /\ \A j \in 1..(k - 1) : seq[j] # x

\* C8: the list get_player_urls_from_team returns holds every distinct url
\* of the gathered link list exactly once, in the order of first occurrence.
C8_DedupKeepsFirstSeenOrder ==
    pc = "urls_returned" =>
       LET g == listing.gathered
           r == player_urls
       IN /\ \A k \in 1..Len(g) : InSeq(g[k], r)
          /\ \A k \in 1..Len(r) : InSeq(r[k], g)
          /\ \A j, k \in 1..Len(r) : j # k => r[j] # r[k]
          /\ \A j, k \in 1..Len(r) : j < k => FirstIndex(g, r[j]) < FirstIndex(g, r[k])

\* The link list [A, B, A, D, B] (the first A with a query string) gave [A, B, D].
C8_Witness ==
    /\ pc = "urls_returned"
    /\ listing.gathered = <<FullUrl(HrefA), FullUrl(HrefB), FullUrl(HrefA),
                            FullUrl(HrefD), FullUrl(HrefB)>>
    /\ player_urls = <<FullUrl(HrefA), FullUrl(HrefB), FullUrl(HrefD)>>

(***************************************************************************)
(* Properties of both variants (SpecBoth)                                  *)
(***************************************************************************)
\* Where Script_2 can be; Script_1 is everywhere else.
MinimalPcs ==
    {"discover", "team_scroll_init", "team_scroll", "gather", "urls_returned",
     "players", "fetch", "fetched", "quit", "save", "finished"}

\* The detail urls of the rows that reach the fetch, in listing order.
RECURSIVE RowUrls(_)
RowUrls(rs) ==
    IF rs = <<>> THEN <<>>
    ELSE LET row == Head(rs) IN
         IF row.ncols >= MinColumns /\ row.anchor.present /\ row.anchor.has_href
         THEN <<FullUrl(row.anchor.href)>> \o RowUrls(Tail(rs))
         ELSE RowUrls(Tail(rs))

\* C11: entities are processed one at a time in listing order: the urls
\* fetched so far are the listed ones in their order, a fetch navigates for
\* the entity it was called for only, and while the fetch for entity k + 1
\* runs the records of all k entities before it are appended; the minimal
\* variant writes its rows in the order of the visits.
C11_OneAtATimeInListingOrder ==
    IF pc \in MinimalPcs
    THEN LET running == pc \in {"fetch", "fetched"} IN
         /\ visits = SubSeq(player_urls, 1, Len(visits))
         /\ Len(results) = Len(visits) - (IF running THEN 1 ELSE 0)
         /\ \A k \in 1..Len(results) : results[k].ID = PlayerIdOf(visits[k].href)
         /\ fetch.navs > 0 => running /\ fetch.url = visits[Len(visits)]
         /\ pc = "finished" /\ written # {} =>
               \A f \in written :
                  /\ Len(files[f].rows) = Len(visits)
                  /\ \A k \in 1..Len(visits) :
                        FileValues(files[f])[k][1] = PlayerIdOf(visits[k].href)
    ELSE LET running == profile.active
             seen == IF running THEN idx ELSE idx - 1 IN
         /\ visits = RowUrls(SubSeq(rows, 1, seen))
         /\ Len(all_players_data) = Len(visits) - (IF running THEN 1 ELSE 0)
         /\ \A k \in 1..Len(all_players_data) :
               all_players_data[k].ID = PlayerIdOf(visits[k].href)
         /\ profile.navs > 0 => running /\ profile.url = visits[Len(visits)]

\* The minimal variant visited [A, B] in that order and wrote the two rows
\* in that order.
C11_Witness ==
    /\ pc = "finished"
    /\ visits = <<FullUrl(HrefA), FullUrl(HrefB)>>
    /\ written = AllFiles
    /\ FileValues(files.txt)[1][1] = Id20
    /\ FileValues(files.txt)[2][1] = Id100

\* The name a file gives to cell j of its row i: the header's, else the
\* cell's own, else none ("").
FieldName(f, i, j) == IF f.header # <<>> THEN f.header[j] ELSE f.rows[i][j].name

C25_TextStartsWithHeader ==
    pc = "finished" /\ "txt" \in written =>
       /\ files.txt.header = MinimalFields
       /\ Len(files.txt.rows) = Len(results)
       /\ \A i \in 1..Len(results) : Len(files.txt.rows[i]) = Len(files.txt.header)

\* What the text file of the minimal variant does hold: no header line, and
\* one line per record with its id, name, value and wage in that order.
TextLinesWithoutHeader ==
    pc = "finished" /\ "txt" \in written =>
       /\ files.txt.header = <<>>
       /\ Len(files.txt.rows) = Len(results)
       /\ \A i \in 1..Len(results) :
             RowValues(files.txt.rows[i]) =
                <<results[i].ID, results[i].Name, results[i].Value, results[i].Wage>>

\* The record line 296 makes of what scrape_name_value_wage returned.
ResultOf(ret) == [ID |-> ret[1], Name |-> ret[2], Value |-> ret[3], Wage |-> ret[4]]

\* C26: in the minimal variant, once the loop is left there is one record
\* per url of the deduplicated list, the i-th with the id parsed from the
\* i-th url ("-" if it has none); a call whose attempts all failed returns
\* that id with "-" for name, value and wage, and what a call returns is
\* the record appended for its url.
C26_OneRecordPerUrl ==
    /\ [](/\ pc \in {"quit", "save", "finished"} =>
              /\ Len(results) = Len(player_urls)
              /\ \A i \in 1..Len(player_urls) :
                    results[i].ID = PlayerIdOf(player_urls[i].href)
          /\ pc = "fetched" =>
              /\ fetch.url = player_urls[Len(results) + 1]
              /\ fetch.ret[1] = PlayerIdOf(fetch.url.href)
              /\ fetch.attempt = FetchMaxRetries =>
                    /\ fetch.navs = FetchMaxRetries
                    /\ fetch.ret = <<PlayerIdOf(fetch.url.href), "-", "-", "-">>)
    /\ [][pc = "fetched" => results' = Append(results, ResultOf(fetch.ret))]_vars

\* Two urls were listed, the second without an id; every attempt for the
\* first failed, and after the loop there are the two records.
C26_Witness ==
    /\ pc = "save"
    /\ player_urls = <<FullUrl(HrefA), FullUrl(HrefD)>>
    /\ Len(results) = 2
    /\ results[1] = ResultOf(<<Id20, "-", "-", "-">>)
    /\ results[2].ID = Dash
    /\ results[2].Name = "L. Messi"

Ended == pc \in {"done", "finished"}

\* C17: every run that ends has called driver.quit exactly once, and no run
\* calls it twice.
C17_QuitExactlyOnce ==
    /\ quits <= 1
    /\ Ended => quits = 1

\* What does hold: driver.quit is called at most once and only when the
\* run has no more use for the browser; a run that ends has called it once,
\* except a full-profile run whose driver service did not answer
\* is_connectable() in the finally block, which has not called it.
QuitOnceWhenConnectable ==
    /\ quits <= 1
    /\ quits = 1 => pc \in {"export", "done", "save", "finished"}
    /\ Ended => quits = (IF connectable THEN 1 ELSE 0)
    /\ pc \in MinimalPcs => connectable

\* Where get_player_urls_from_team runs.
ListingPcs == {"discover", "team_scroll_init", "team_scroll", "gather"}

\* C28: get_player_urls_from_team loads the listing page at most
\* max_retries times, once per attempt; it returns the deduplicated list
\* of the first attempt that does not raise, an empty one included, or the
\* empty list when max_retries attempts raised, and after it has returned
\* the listing page is not loaded again.
C28_ListingLoadsBounded ==
    /\ [](/\ listing.loads <= ListingMaxRetries
          /\ pc \in ListingPcs =>
                listing.loads = listing.attempt + (IF pc = "discover" THEN 0 ELSE 1)
          /\ pc = "urls_returned" =>
                /\ listing.returned
                /\ player_urls = DictFromKeys(listing.gathered)
                /\ IF listing.attempt < ListingMaxRetries
                   THEN listing.loads = listing.attempt + 1
                   ELSE listing.loads = ListingMaxRetries /\ player_urls = <<>>)
    /\ [][pc \notin ListingPcs => pc' \notin ListingPcs /\ listing'.loads = 0]_vars

\* The first attempt raised, the second found no player link: the empty
\* list is returned after two loads.
C28_Witness ==
    /\ pc = "urls_returned"
    /\ listing.attempt = 1
    /\ listing.loads = 2
    /\ listing.gathered = <<>>
    /\ player_urls = <<>>

\* What the browser was used for: the loads, the scrolls and measurements,
\* the page reads.
BrowserUse == <<sg, profile, listing, fetch, visits, last_height, rows, player_urls>>

\* From here on the run only closes files: the export of Script_1, the
\* save of Script_2, and the end of either.
Exporting == pc \in {"export", "done", "save", "finished"}

\* C27: in both variants the browser session has been closed when an
\* output file is written, and once the export has begun there is no
\* navigation and no page read.
C27_ClosedBeforeExport ==
    /\ [](written # {} => quits = 1)
    /\ [][Exporting => UNCHANGED BrowserUse]_vars

\* What does hold: the export begins after the last use of the browser and
\* after the only place that closes it; the session has been closed then
\* unless the driver service of the full-profile variant did not answer
\* is_connectable().
ExportAfterLastBrowserUse ==
    /\ [](written # {} => Ended /\ quits = (IF connectable THEN 1 ELSE 0))
    /\ [][Exporting => UNCHANGED BrowserUse /\ Exporting']_vars

(***************************************************************************)
(* Properties of the extraction (SpecExtract)                              *)
(***************************************************************************)
\* The page with its structured-data block taken out.
WithoutLd(pg) == [pg EXCEPT !.ld = NoLd]

Unusable == {"empty", "invalid", "nonobject"}

\* C13: a structured-data block that is there but cannot be used (an empty
\* script element, text that is not JSON, JSON that is no object) is
\* swallowed within the attempt: no attempt is used up, height, weight and
\* nationality are "-", and the labelled fields are what the page gives
\* without the block.
C13_UnusableBlockSwallowed ==
    pc = "extracted" /\ ~served.notfound /\ served.ld.kind \in Unusable =>
       /\ profile.attempt = 0
       /\ profile.ret = ExtractDetail(WithoutLd(served))
       /\ profile.ret[1] = "-" /\ profile.ret[2] = "-" /\ profile.ret[9] = "-"

\* What does hold: text that json.loads rejects is swallowed.
InvalidJsonSwallowed ==
    pc = "extracted" /\ ~served.notfound /\ served.ld.kind = "invalid" =>
       /\ profile.attempt = 0
       /\ profile.ret = ExtractDetail(WithoutLd(served))

\* The values a page offers for a field, by the field's own source.
LdSource(pg, key) ==
    IF pg.ld.kind = "object" /\ pg.ld[key] # Missing THEN {pg.ld[key]} ELSE {}
ParaSource(pg, label) ==
    {pg.paras[k][2] : k \in {n \in 1..Len(pg.paras) : pg.paras[n][1] = label}}
InfoSource(pg, field) ==
    {pg.infos[k][2] : k \in {n \in 1..Len(pg.infos) :
        IF field = "Value" THEN "Value" \in pg.infos[n][1]
        ELSE "Wage" \in pg.infos[n][1] /\ "Value" \notin pg.infos[n][1]}}
ContractSource(pg) ==
    IF pg.pos \notin {"nospan", "nomatch"} THEN {pg.pos}
    ELSE ParaSource(pg, "Contract valid until")

\* The value of the source when there is one, "-" when there is none.
FromSource(v, source) == IF source = {} THEN v = "-" ELSE v \in source

FieldsFromOwnSources(pg, d) ==
    /\ Len(d) = 9
    /\ FromSource(d[1], LdSource(pg, "height"))
    /\ FromSource(d[2], LdSource(pg, "weight"))
    /\ FromSource(d[3], ParaSource(pg, "Preferred foot"))
    /\ FromSource(d[4], ParaSource(pg, "Skill moves"))
    /\ FromSource(d[5], ParaSource(pg, "Weak foot"))
    /\ FromSource(d[6], ContractSource(pg))
    /\ FromSource(d[7], InfoSource(pg, "Value"))
    /\ FromSource(d[8], InfoSource(pg, "Wage"))
    /\ FromSource(d[9], LdSource(pg, "nationality"))

\* C14: on a page that loaded, each of the nine fields is the value of its
\* own source when the page has that source and "-" when it has not,
\* whatever the other sources are.
C14_FieldsIndependent ==
    pc = "extracted" /\ ~served.notfound => FieldsFromOwnSources(served, profile.ret)

\* What does hold: the same for the pages whose structured-data block, if
\* any, does not make the attempt raise.
FieldsIndependentWhenBlockUsable ==
    pc = "extracted" /\ ~served.notfound /\ ~LdRaises(served.ld) =>
       FieldsFromOwnSources(served, profile.ret)

\* The value of the first (last) element that P holds of, or "-".
Matches(elems, P(_)) == {k \in 1..Len(elems) : P(elems[k])}

FirstMatch(elems, P(_)) ==
    LET hits == Matches(elems, P) IN
    IF hits = {} THEN "-" ELSE elems[CHOOSE k \in hits : \A n \in hits : k <= n][2]

LastMatch(elems, P(_)) ==
    LET hits == Matches(elems, P) IN
    IF hits = {} THEN "-" ELSE elems[CHOOSE k \in hits : \A n \in hits : k >= n][2]

\* C20: of several elements with the same known label the first one in
\* document order gives the field its value.
C20_FirstMatchWins ==
    pc = "extracted" /\ ~served.notfound /\ profile.ret # <<>> =>
       LET Foot(e) == e[1] = "Preferred foot"
           Skill(e) == e[1] = "Skill moves"
           Weak(e) == e[1] = "Weak foot"
           Value(e) == "Value" \in e[1]
       IN /\ profile.ret[3] = FirstMatch(served.paras, Foot)
          /\ profile.ret[4] = FirstMatch(served.paras, Skill)
          /\ profile.ret[5] = FirstMatch(served.paras, Weak)
          /\ profile.ret[7] = FirstMatch(served.infos, Value)

\* What does hold: the last one in document order gives the value.
LastMatchWins ==
    pc = "extracted" /\ ~served.notfound /\ profile.ret # <<>> =>
       LET Foot(e) == e[1] = "Preferred foot"
           Skill(e) == e[1] = "Skill moves"
           Weak(e) == e[1] = "Weak foot"
           Value(e) == "Value" \in e[1]
       IN /\ profile.ret[3] = LastMatch(served.paras, Foot)
          /\ profile.ret[4] = LastMatch(served.paras, Skill)
          /\ profile.ret[5] = LastMatch(served.paras, Weak)
          /\ profile.ret[7] = LastMatch(served.infos, Value)

\* C23: every detail field that comes back from a page is a value found on
\* the page or exactly "-": never null and never the empty string, also
\* when the structured-data block has the key with a null value.
C23_ValueOrSentinel ==
    pc = "extracted" /\ profile.ret # <<>> =>
       \A k \in 1..Len(profile.ret) : profile.ret[k] \notin {NoneVal, ""}

\* What does hold: the same for the pages whose block has no null value.
ValueOrSentinelWithoutNull ==
    pc = "extracted" /\ profile.ret # <<>>
       /\ (\A key \in {"height", "weight", "nationality"} : served.ld[key] # NoneVal) =>
       \A k \in 1..Len(profile.ret) : profile.ret[k] \notin {NoneVal, ""}

RowsOver == 1..Len(row_log)
NumRows(P(_)) == Cardinality({k \in RowsOver : P(rows[k])})
NumLogged(kind) == Cardinality({k \in RowsOver : row_log[k].kind = kind})

IsShort(row) == row.ncols < MinColumns
IsSkipped(row) == row.ncols < MinColumns \/ ~row.anchor.present
IsUnlinked(row) == ~IsSkipped(row) /\ ~row.anchor.has_href
IsOther(row) == ~IsSkipped(row)
IsLinked(row) == ~IsSkipped(row) /\ row.anchor.has_href

LoopLeft == pc \in {"finally", "export", "done"} /\ fatal = "none"

\* C15 as stated: a row with fewer than 8 columns or without an anchor in
\* the name column gives no record and no visit, every other row gives
\* exactly one record, there is one warning per row with fewer than 8
\* columns, and the loop goes through every row.
C15_EveryOtherRowOneRecord ==
    /\ \A k \in RowsOver :
          /\ row_log[k].idx = k
          /\ row_log[k].kind = "record" <=> IsOther(rows[k])
    /\ Len(all_players_data) = NumRows(IsOther)
    /\ NumLogged("warned") = NumRows(IsShort)
    /\ LoopLeft => Len(row_log) = Len(rows)

\* C15, amended: a row with fewer than 8 columns or without an anchor in
\* the name column is skipped, and a row whose anchor has no href raises
\* into the row handler; neither gives a record or a visit.  Every other
\* row gives exactly one record and one visit, there is one warning per row
\* with fewer than 8 columns, and the loop goes through every row.
C15_RowsSkippedOrRecorded ==
    /\ \A k \in RowsOver :
          /\ row_log[k].idx = k
          /\ row_log[k].kind \in {"warned", "skipped"} <=> IsSkipped(rows[k])
          /\ row_log[k].kind = "warned" <=> IsShort(rows[k])
          /\ row_log[k].kind = "error" <=> IsUnlinked(rows[k])
          /\ row_log[k].kind = "record" <=> IsLinked(rows[k])
    /\ Len(all_players_data) = NumRows(IsLinked)
    /\ Len(visits) = NumRows(IsLinked) + (IF profile.active THEN 1 ELSE 0)
    /\ NumLogged("warned") = NumRows(IsShort)
    /\ LoopLeft => Len(row_log) = Len(rows)

\* A 5-column row and then a well-formed row: one warning, one record, one
\* visit, and the run has ended.
C15_Witness ==
    /\ pc = "done"
    /\ rows = <<RowShort, RowA>>
    /\ NumLogged("warned") = 1
    /\ Len(visits) = 1
    /\ Len(files.xlsx.rows) = 1

\* C19: the failure message of a row names the detail url of that row, or
\* no url ('unknown URL') when the row raised before its url was computed;
\* it never names the url of an earlier row.
C19_FailureNamesOwnUrl ==
    \A k \in 1..Len(row_log) :
       row_log[k].kind = "error" =>
          LET row == rows[row_log[k].idx] IN
          row_log[k].logged = (IF row.anchor.has_href
                               THEN <<FullUrl(row.anchor.href)>> ELSE <<>>)

\* What does hold: a row that raises before any row has computed a url is
\* logged with no url.
FirstFailureNamesNoUrl ==
    \A k \in 1..Len(row_log) :
       row_log[k].kind = "error" /\ (\A j \in 1..(k - 1) : row_log[j].kind # "record") =>
          row_log[k].logged = <<>>

\* The top-level state of the full-profile run.
Phase(at, call) ==
    CASE at = "start" -> "Init"
      [] at = "safe_get" /\ call.caller = "team" -> "Init"
      [] at \in {"scroll_init", "scroll", "wait_table"} -> "ListingLoaded"
      [] at \in {"rows", "safe_get", "profile_loop", "profile_page", "append"} -> "Iterating"
      [] at \in {"finally", "export"} -> "Finalizing"
      [] OTHER -> "Done"

\* One step of the run in terms of its top-level state: it stays, goes on
\* to the next, or leaves for Finalizing through the outer handler.
PhaseStep ==
    LET from == Phase(pc, sg)
        to == Phase(pc', sg')
    IN /\ \/ to = from
          \/ from = "Init" /\ to = "ListingLoaded" /\ fatal' = "none"
          \/ from = "ListingLoaded" /\ to = "Iterating" /\ fatal' = "none"
          \/ from = "Iterating" /\ to = "Finalizing" /\ fatal' = "none"
          \/ from = "Finalizing" /\ to = "Done"
          \/ from \in {"Init", "ListingLoaded"} /\ to = "Finalizing" /\ fatal' # "none"
       /\ fatal' # fatal => fatal = "none" /\ from \in {"Init", "ListingLoaded"}

\* C22 as stated: the outer handler runs only because the listing page
\* could not be loaded or the wait for the table rows timed out.
C22_FatalOnlyLoadOrWait == fatal \in {"none", "load", "wait"}

\* C22, amended: the run follows Init, ListingLoaded, Iterating, Finalizing,
\* Done, and the outer handler runs only for a failure before the iteration
\* over the rows has started: the listing page cannot be loaded, a script
\* call of the scroll raises, the wait for the table rows times out, or the
\* read of the page source raises.  No failure of a row leads to it.
C22_FatalOnlyBeforeIteration ==
    /\ [](/\ fatal \in {"none", "load", "scroll", "wait", "source"}
          /\ fatal # "none" =>
                /\ pc \in {"finally", "export", "done"}
                /\ rows = <<>> /\ row_log = <<>> /\ visits = <<>>)
    /\ [][PhaseStep]_vars

\* The wait for the table rows timed out and the run went on to its end.
C22_Witness ==
    /\ pc = "done"
    /\ fatal = "wait"
    /\ written = AllFiles

(***************************************************************************)
(* Properties of the run under fairness (FairSpec)                         *)
(***************************************************************************)
\* C16: scroll_to_bottom terminates for every sequence of height
\* measurements: a run that is in the scroll loop gets out of it.
C16_ScrollTerminates == (pc = "scroll") ~> (pc # "scroll")

(***************************************************************************)
(* Properties of the file names (SpecNames)                                *)
(***************************************************************************)
\* The last path segment of the url once its trailing slashes are gone.
LastSegment(url) == LET segs == StripRight(url) IN segs[Len(segs)]

\* <PREFIX>_<slug>.xlsx, .txt and .json
NamesFor(prefix, slug) == {Prefixed(prefix, slug) \o <<e>> : e \in Extensions}

\* C18: the three files are named <PREFIX>_<slug>.xlsx, .txt and .json with
\* the whole last path segment as the slug, dots in it included.
C18_NamesCarryWholeSlug ==
    /\ pc = "named_full" => names = NamesFor("SCRIPT_1_", LastSegment(team_url))
    /\ pc = "named_minimal" => names = NamesFor("SCRIPT_2_", LastSegment(team_url))

\* What does hold: the minimal variant's names carry the whole slug, and so
\* do the full-profile variant's when the slug has no dot.
NamesCarrySlugWithoutDot ==
    /\ pc = "named_minimal" => names = NamesFor("SCRIPT_2_", LastSegment(team_url))
    /\ pc = "named_full" /\ Len(LastSegment(team_url)) = 1 =>
          names = NamesFor("SCRIPT_1_", LastSegment(team_url))

(***************************************************************************)
(* Properties of scroll_to_bottom (SpecScroll)                             *)
(***************************************************************************)
\* The positions k at which measurement k equals measurement k - 1.
EqualPairs(m) == {k \in 2..Len(m) : m[k] = m[k - 1]}

\* C21: scroll_to_bottom returns exactly at the first measurement that
\* equals the one before it: while it runs no two consecutive measurements
\* are equal, when it has returned the last pair is the only equal pair, and
\* it has scrolled once before each measurement but the first, so not after
\* the equal pair.
C21_StopsAtFirstEqualPair ==
    LET m == scrolled.measured IN
    /\ \A k \in 1..Len(m) : m[k] = Measure(k)
    /\ scrolled.scrolls = (IF m = <<>> THEN 0 ELSE Len(m) - 1)
    /\ scrolled.returned <=> pc = "scrolled"
    /\ scrolled.returned => EqualPairs(m) = {Len(m)}
    /\ ~scrolled.returned => EqualPairs(m) = {}

\* The page reported 1, 2, 2: two scrolls, then the return.
C21_Witness ==
    /\ pc = "scrolled"
    /\ scrolled.measured = <<1, 2, 2>>
    /\ scrolled.scrolls = 2

====
